---- MODULE Spec2Model ----
(***************************************************************************)
(* A model of powershell_manager.py: the PowerShellManager object, its     *)
(* shared log guarded by one lock, the external resources it updates       *)
(* (registry PATH, file association, alias script, terminal settings,      *)
(* legacy executable) and the flow of main().                              *)
(*                                                                         *)
(* Text is modelled as a sequence of tokens: a literal message is one      *)
(* token, an interpolated value (a path, an error text) is a further       *)
(* token.  Python's  x in s  on text is token membership.  The registry    *)
(* PATH is modelled character by character, because the code splits,       *)
(* strips, lower-cases and prefix-matches it.                              *)
(***************************************************************************)
EXTENDS Integers, Sequences, FiniteSets, TLC

\* ------------------------------------------------------------- bounds
\* longest registry PATH string the path specification starts from
MaxPathLen == 4
\* number of direct method calls a driver (a test) makes on one manager
MaxCalls == 3
\* number of failures of the environment (a command that does not exit 0,
\* a registry or file operation that raises) within one run
MaxFaults == 1

\* ------------------------------------------------------------- constants
\* ThreadPoolExecutor(max_workers=4)
PoolSize == 4

\* ------------------------------------------------------------- generic helpers
SeqToSet(s) == {s[i] : i \in DOMAIN s}

\* Python  tok in text, at token granularity
Contains(text, tok) == \E i \in DOMAIN text : text[i] = tok

\* all sequences over S of length at most n
SeqsUpTo(S, n) == UNION {[1..k -> S] : k \in 0..n}

\* ------------------------------------------------------------- threads
Workers == {"w1", "w2", "w3", "w4"}
Threads == {"main"} \cup Workers

\* the task each pool thread runs (tasks dict, in submission order)
TaskOrder == <<"w1", "w2", "w3", "w4">>
TaskMethod == [w1 |-> "update_system_path",
               w2 |-> "set_powershell_file_associations",
               w3 |-> "create_powershell_alias",
               w4 |-> "configure_terminal_default"]
TaskName == [w1 |-> "Update System PATH",
             w2 |-> "Set File Associations",
             w3 |-> "Create PowerShell Alias",
             w4 |-> "Configure Terminal Default"]

\* ------------------------------------------------------------- paths
\* possible_paths, in list order
PossiblePaths == <<"ProgramFiles", "ProgramFilesX86", "LocalAppData">>
Candidates == SeqToSet(PossiblePaths)

\* os.path.dirname(self.pwsh7_path) as characters: the directory of the
\* first candidate is two characters long, so that a PATH entry can be a
\* proper prefix of it; the other two are one character long
PathDir(p) ==
    CASE p = "ProgramFiles" -> <<"P", "7">>
      [] p = "ProgramFilesX86" -> <<"X">>
      [] OTHER -> <<"L">>

\* characters a stored PATH is built from
PathChars == {"P", "p", "7", ";", " "}

\* str.lower, character by character
LowerChar(c) ==
    CASE c = "P" -> "p"
      [] c = "X" -> "x"
      [] c = "L" -> "l"
      [] OTHER -> c

Lower(s) == [i \in DOMAIN s |-> LowerChar(s[i])]

\* s.startswith(prefix)
StartsWith(s, prefix) ==
    /\ Len(s) >= Len(prefix)
    /\ SubSeq(s, 1, Len(prefix)) = prefix

\* s.split(';'): the segments between separators, empty ones included
RECURSIVE SplitAcc(_, _, _)
SplitAcc(s, sep, cur) ==
    IF s = <<>> THEN <<cur>>
    ELSE IF Head(s) = sep THEN <<cur>> \o SplitAcc(Tail(s), sep, <<>>)
         ELSE SplitAcc(Tail(s), sep, Append(cur, Head(s)))

Split(s, sep) == SplitAcc(s, sep, <<>>)

\* s.strip(): leading and trailing blanks removed
RECURSIVE LStrip(_)
LStrip(s) == IF s # <<>> /\ Head(s) = " " THEN LStrip(Tail(s)) ELSE s

RECURSIVE RStrip(_)
RStrip(s) ==
    IF s # <<>> /\ s[Len(s)] = " " THEN RStrip(SubSeq(s, 1, Len(s) - 1)) ELSE s

Strip(s) == RStrip(LStrip(s))

\* ';'.join(entries)
RECURSIVE Join(_, _)
Join(entries, sep) ==
    IF entries = <<>> THEN <<>>
    ELSE IF Len(entries) = 1 THEN entries[1]
         ELSE entries[1] \o <<sep>> \o Join(Tail(entries), sep)

\* [p.strip() for p in current_path.split(';') if p.strip()]
RECURSIVE StripNonEmpty(_)
StripNonEmpty(segs) ==
    IF segs = <<>> THEN <<>>
    ELSE IF Strip(Head(segs)) # <<>>
         THEN <<Strip(Head(segs))>> \o StripNonEmpty(Tail(segs))
         ELSE StripNonEmpty(Tail(segs))

PathEntries(current_path) == StripNonEmpty(Split(current_path, ";"))

\* a mutant of KeepEntry: the existing entries of the directory are kept
KeepEntryAlways(p, dir) == TRUE

\* the filter  not p.lower().startswith(pwsh7_dir.lower())
KeepEntry(p, dir) == ~StartsWith(Lower(p), Lower(dir))

\* a mutant of RemoveExisting: no entry of the old PATH is kept
RemoveAll(entries, dir) == <<>>

RECURSIVE RemoveExisting(_, _)
RemoveExisting(entries, dir) ==
    IF entries = <<>> THEN <<>>
    ELSE IF KeepEntry(Head(entries), dir)
         THEN <<Head(entries)>> \o RemoveExisting(Tail(entries), dir)
         ELSE RemoveExisting(Tail(entries), dir)

\* path_entries after insert(0, pwsh7_dir)
NewPathEntries(current_path, dir) ==
    <<dir>> \o RemoveExisting(PathEntries(current_path), dir)

\* new_path, the string written back
NewPath(current_path, dir) == Join(NewPathEntries(current_path, dir), ";")

\* ------------------------------------------------------------- state
VARIABLES
    pc,                \* each thread's position
    stack,             \* each thread's return addresses, innermost first
    rv,                \* the value the thread's last finished call returned
    pend,              \* the arguments of the log_action call in progress
    result,            \* main's local  result  of run_command
    lock,              \* self.lock: "free" or the thread holding it
    installation_log,  \* self.installation_log
    pwsh7_path,        \* self.pwsh7_path, "None" when unset
    elevated,          \* what IsUserAnAdmin answers for this process
    fs,                \* the candidate executables that exist
    regPath,           \* the system PATH value in the registry
    assoc,             \* the .ps1 association keys in the registry
    aliasFile,         \* System32\powershell.bat
    settings,          \* Windows Terminal's settings.json
    ps51,              \* powershell.exe exists
    backup,            \* powershell_v51_backup.exe exists
    restoreScript,     \* restore_powershell51.ps1 exists
    report,            \* powershell_installation_report.txt
    submitted,         \* how many tasks the executor was given
    consumed,          \* the futures as_completed has yielded
    ran,               \* history: the steps that have started
    cmds,              \* history: the command lines run_command was given
    nLogCalls,         \* history: how many log_action calls were made
    calls,             \* how many calls the driver has made
    success,           \* main's local  success
    faults             \* how many operations of the environment have failed

vars == <<pc, stack, rv, pend, result, lock, installation_log, pwsh7_path,
          elevated, fs, regPath, assoc, aliasFile, settings, ps51, backup,
          restoreScript, report, submitted, consumed, ran, cmds, nLogCalls,
          calls, success, faults>>

\* the external resources
resources == <<fs, regPath, assoc, aliasFile, settings, ps51, backup,
               restoreScript, report>>

\* the pool's bookkeeping
poolVars == <<submitted, consumed>>

\* the outcomes an operation of the environment may still have: "ok" is
\* always among them, the others are failures
Possible(outcomes) == IF faults < MaxFaults THEN outcomes ELSE {"ok"}

\* the operation of the environment ended with this outcome
Outcome(o) == faults' = faults + (IF o = "ok" THEN 0 ELSE 1)

\* ------------------------------------------------------------- log entries
NoArgs == [success |-> TRUE, action |-> <<>>, details |-> <<>>]

LogArgs(ok, action, details) ==
    [success |-> ok, action |-> action, details |-> details]

\* f"[{timestamp}] {status}: {action}" and, with details, " - {details}"
LogEntry(a) ==
    <<"[ts]", IF a.success THEN "SUCCESS" ELSE "FAILED", ":">> \o a.action
    \o (IF a.details # <<>> THEN <<"-">> \o a.details ELSE <<>>)

\* the status the entry was written with
EntryStatus(e) == e[2]

\* the message the entry was written with
EntryMessage(e) == e[4]

\* a mutant of Truthy: every value passes an  if not  test
TruthyAlways(v) == TRUE

\* Python truthiness of a returned value
Truthy(v) == v \notin {"None", "False"}

\* ------------------------------------------------------------- calls
\* Every control operator below fixes pc, stack, rv, pend and nLogCalls.

\* t goes on at target
Goto(t, target) ==
    /\ pc' = [pc EXCEPT ![t] = target]
    /\ UNCHANGED <<stack, rv, pend, nLogCalls>>

\* t calls the code at target and continues at retpc when it returns
Call(t, target, retpc) ==
    /\ pc' = [pc EXCEPT ![t] = target]
    /\ stack' = [stack EXCEPT ![t] = <<retpc>> \o @]
    /\ UNCHANGED <<rv, pend, nLogCalls>>

\* self.log_action(...) followed by more code at retpc
CallLog(t, a, retpc) ==
    /\ pc' = [pc EXCEPT ![t] = "log_action"]
    /\ stack' = [stack EXCEPT ![t] = <<retpc>> \o @]
    /\ pend' = [pend EXCEPT ![t] = a]
    /\ nLogCalls' = nLogCalls + 1
    /\ UNCHANGED rv

\* self.log_action(...) as the last statement before  return v : log_action
\* returns to the caller of the method, which finds v
LogAndReturn(t, a, v) ==
    /\ pc' = [pc EXCEPT ![t] = "log_action"]
    /\ pend' = [pend EXCEPT ![t] = a]
    /\ rv' = [rv EXCEPT ![t] = v]
    /\ nLogCalls' = nLogCalls + 1
    /\ UNCHANGED stack

\* return v  without logging
ReturnValue(t, v) ==
    /\ pc' = [pc EXCEPT ![t] = Head(stack[t])]
    /\ stack' = [stack EXCEPT ![t] = Tail(@)]
    /\ rv' = [rv EXCEPT ![t] = v]
    /\ UNCHANGED <<pend, nLogCalls>>

\* a mutant of MainCatches: a bare  except:  that also stops SystemExit
MainCatchesAll(kind) == TRUE

\* main's handlers: except KeyboardInterrupt, except Exception.  SystemExit
\* derives from BaseException and passes both
MainCatches(kind) == kind \in {"KeyboardInterrupt", "Exception"}

\* the frames of main's try block: the two calls made inside it
InTry(stk) == \E i \in DOMAIN stk : stk[i] \in {"main_after_rip", "main_end"}

\* an exception of this kind leaves the code t is in and unwinds its stack
Raise(t, kind) ==
    /\ pc' = [pc EXCEPT ![t] =
                IF InTry(stack[t]) /\ MainCatches(kind) THEN "main_except"
                ELSE IF kind = "SystemExit" THEN "exited" ELSE "crashed"]
    /\ stack' = [stack EXCEPT ![t] = <<>>]
    /\ UNCHANGED <<rv, pend, nLogCalls>>

\* a mutant of LockAvailable: the lock is handed out while it is held
LockAlwaysAvailable(l) == TRUE

\* Lock.acquire succeeds only on a free lock
LockAvailable(l) == l = "free"

\* self.installation_log.append(log_entry)
AppendEntry(log, e) == Append(log, e)

\* with self.lock:  entering the critical section
LogAcquire(t) ==
    /\ pc[t] = "log_action"
    /\ LockAvailable(lock)
    /\ lock' = t
    /\ pc' = [pc EXCEPT ![t] = "log_locked"]
    /\ UNCHANGED <<stack, rv, pend, result, installation_log, pwsh7_path,
                   elevated, resources, poolVars, ran, cmds, nLogCalls, calls,
                   success, faults>>

\* the body of the critical section and the release of the lock
LogAppend(t) ==
    /\ pc[t] = "log_locked"
    /\ installation_log' = AppendEntry(installation_log, LogEntry(pend[t]))
    /\ lock' = "free"
    /\ pend' = [pend EXCEPT ![t] = NoArgs]
    /\ pc' = [pc EXCEPT ![t] = Head(stack[t])]
    /\ stack' = [stack EXCEPT ![t] = Tail(@)]
    /\ UNCHANGED <<rv, result, pwsh7_path, elevated, resources, poolVars,
                   ran, cmds, nLogCalls, calls,
                   success, faults>>

\* ------------------------------------------------------------- configuration actions
\* what the actions leave alone besides their own resource
configFrame == <<result, lock, installation_log, pwsh7_path, elevated,
                 poolVars, cmds, calls, success>>

\* update_system_path.  The registry read, the rewrite and the write happen
\* inside one  with OpenKey  block; OpenKey or SetValueEx may raise, and
\* then nothing was written
update_system_path(t) ==
    /\ pc[t] = "update_system_path"
    /\ ran' = ran \cup {"update_system_path"}
    /\ IF ~Truthy(pwsh7_path)
       THEN /\ ReturnValue(t, "False")
            /\ UNCHANGED <<regPath, faults>>
       ELSE \E registry \in Possible({"ok", "error"}) :
              /\ Outcome(registry)
              /\ IF registry = "ok"
                 THEN /\ regPath' = NewPath(regPath, PathDir(pwsh7_path))
                      /\ LogAndReturn(t, LogArgs(TRUE,
                             <<"System PATH updated successfully">>, <<>>),
                             "True")
                 ELSE /\ UNCHANGED regPath
                      /\ LogAndReturn(t, LogArgs(FALSE,
                             <<"Failed to update system PATH">>, <<"err">>),
                             "False")
    /\ UNCHANGED <<configFrame, fs, assoc, aliasFile, settings, ps51, backup,
                   restoreScript, report>>

\* set_powershell_file_associations: two keys are written one after the
\* other, and either write may raise
set_powershell_file_associations(t) ==
    /\ pc[t] = "set_powershell_file_associations"
    /\ ran' = ran \cup {"set_powershell_file_associations"}
    /\ IF ~Truthy(pwsh7_path)
       THEN /\ ReturnValue(t, "False")
            /\ UNCHANGED <<assoc, faults>>
       ELSE \E registry \in Possible({"ok", "error_first", "error_second"}) :
              /\ Outcome(registry)
              /\ CASE registry = "ok" ->
                     /\ assoc' = [command |-> pwsh7_path,
                                  ext |-> "Microsoft.PowerShellScript.1"]
                     /\ LogAndReturn(t, LogArgs(TRUE,
                            <<"PowerShell file associations updated">>, <<>>),
                            "True")
                [] registry = "error_first" ->
                     /\ UNCHANGED assoc
                     /\ LogAndReturn(t, LogArgs(FALSE,
                            <<"Failed to set file associations">>, <<"err">>),
                            "False")
                [] OTHER ->
                     /\ assoc' = [assoc EXCEPT !.command = pwsh7_path]
                     /\ LogAndReturn(t, LogArgs(FALSE,
                            <<"Failed to set file associations">>, <<"err">>),
                            "False")
    /\ UNCHANGED <<configFrame, fs, regPath, aliasFile, settings, ps51, backup,
                   restoreScript, report>>

\* create_powershell_alias: the batch file holds the executable's path
create_powershell_alias(t) ==
    /\ pc[t] = "create_powershell_alias"
    /\ ran' = ran \cup {"create_powershell_alias"}
    /\ IF ~Truthy(pwsh7_path)
       THEN /\ ReturnValue(t, "False")
            /\ UNCHANGED <<aliasFile, faults>>
       ELSE \E io \in Possible({"ok", "error"}) :
              /\ Outcome(io)
              /\ IF io = "ok"
                 THEN /\ aliasFile' = pwsh7_path
                      /\ LogAndReturn(t, LogArgs(TRUE,
                             <<"PowerShell alias created successfully">>, <<>>),
                             "True")
                 ELSE /\ UNCHANGED aliasFile
                      /\ LogAndReturn(t, LogArgs(FALSE,
                             <<"Failed to create PowerShell alias">>, <<"err">>),
                             "False")
    /\ UNCHANGED <<configFrame, fs, regPath, assoc, settings, ps51, backup,
                   restoreScript, report>>

\* 'PowerShell' in name and '7' in name
IsPwsh7Profile(profile) ==
    Contains(profile.name, "PowerShell") /\ Contains(profile.name, "7")

\* the loop over settings['profiles']['list']: the guid of the first
\* profile whose name matches, "None" when no profile matches
RECURSIVE FindPwsh7Guid(_)
FindPwsh7Guid(profiles) ==
    IF profiles = <<>> THEN "None"
    ELSE IF IsPwsh7Profile(Head(profiles)) THEN Head(profiles).guid
         ELSE FindPwsh7Guid(Tail(profiles))

\* settings.json after  open(..., 'w')  when json.dump did not finish
Truncated(st) ==
    [exists |-> TRUE, valid |-> FALSE, profiles |-> <<>>,
     defaultProfile |-> "None", theme |-> "None"]

\* the failures of the file operations of configure_terminal_default:
\* reading, opening for writing (nothing written yet), writing
TerminalOutcomes == {"ok", "read_error", "open_error", "write_error"}

FailedTerminalArgs ==
    LogArgs(FALSE, <<"Failed to configure Windows Terminal">>, <<"err">>)

\* configure_terminal_default
configure_terminal_default(t) ==
    /\ pc[t] = "configure_terminal_default"
    /\ ran' = ran \cup {"configure_terminal_default"}
    /\ IF ~settings.exists
       THEN /\ UNCHANGED <<settings, faults>>
            /\ LogAndReturn(t, LogArgs(TRUE,
                   <<"Windows Terminal settings not found">>, <<>>), "False")
       ELSE \E io \in Possible(TerminalOutcomes) :
              /\ Outcome(io)
              /\ IF io = "read_error" \/ ~settings.valid
                 THEN /\ io \in {"ok", "read_error"}
                      /\ UNCHANGED settings
                      /\ LogAndReturn(t, FailedTerminalArgs, "False")
                 ELSE IF ~Truthy(FindPwsh7Guid(settings.profiles))
                 THEN /\ io = "ok"
                      /\ UNCHANGED settings
                      /\ LogAndReturn(t, LogArgs(FALSE,
                             <<"PowerShell 7 profile not found in Windows Terminal">>,
                             <<>>), "False")
                 ELSE CASE io = "ok" ->
                             /\ settings' = [settings EXCEPT !.defaultProfile =
                                                FindPwsh7Guid(settings.profiles)]
                             /\ LogAndReturn(t, LogArgs(TRUE,
                                    <<"Windows Terminal default profile updated">>,
                                    <<>>), "True")
                        [] io = "open_error" ->
                             /\ UNCHANGED settings
                             /\ LogAndReturn(t, FailedTerminalArgs, "False")
                        [] OTHER ->
                             /\ settings' = Truncated(settings)
                             /\ LogAndReturn(t, FailedTerminalArgs, "False")
    /\ UNCHANGED <<configFrame, fs, regPath, assoc, aliasFile, ps51, backup,
                   restoreScript, report>>

\* ------------------------------------------------------------- legacy version
\* a mutant of ShouldRename: the backup is not looked at
ShouldRenameAnyway(legacy, bak) == legacy

\* os.path.exists(ps51_path) and not os.path.exists(ps51_backup)
ShouldRename(legacy, bak) == legacy /\ ~bak

\* disable_powershell51_access: shutil.move may raise, and is caught
disable_powershell51_access ==
    /\ pc["main"] = "disable_powershell51_access"
    /\ ran' = ran \cup {"disable_powershell51_access"}
    /\ IF ShouldRename(ps51, backup)
       THEN \E move \in Possible({"ok", "error"}) :
              /\ Outcome(move)
              /\ IF move = "ok"
                 THEN /\ ps51' = FALSE
                      /\ backup' = TRUE
                      /\ LogAndReturn("main", LogArgs(TRUE,
                             <<"PowerShell 5.1 access limited (renamed to backup)">>,
                             <<>>), "True")
                 ELSE /\ UNCHANGED <<ps51, backup>>
                      /\ LogAndReturn("main", LogArgs(FALSE,
                             <<"Failed to limit PowerShell 5.1 access">>,
                             <<"err">>), "False")
       ELSE /\ UNCHANGED <<ps51, backup, faults>>
            /\ LogAndReturn("main", LogArgs(TRUE,
                   <<"PowerShell 5.1 already processed or not found">>, <<>>),
                   "True")
    /\ UNCHANGED <<configFrame, fs, regPath, assoc, aliasFile, settings,
                   restoreScript, report>>

\* create_restore_script
create_restore_script ==
    /\ pc["main"] = "create_restore_script"
    /\ ran' = ran \cup {"create_restore_script"}
    /\ \E io \in Possible({"ok", "error"}) :
         /\ Outcome(io)
         /\ IF io = "ok"
            THEN /\ restoreScript' = TRUE
                 /\ LogAndReturn("main", LogArgs(TRUE,
                        <<"PowerShell 5.1 restoration script created">>, <<>>),
                        "True")
            ELSE /\ UNCHANGED restoreScript
                 /\ LogAndReturn("main", LogArgs(FALSE,
                        <<"Failed to create restoration script">>, <<"err">>),
                        "False")
    /\ UNCHANGED <<configFrame, fs, regPath, assoc, aliasFile, settings, ps51,
                   backup, report>>

\* ------------------------------------------------------------- commands
\* what subprocess.run can do: exit 0, exit non-zero, time out, fail to start
CmdOutcomes == {"ok", "nonzero", "timeout", "error"}

\* run_command(command) called by main, which continues at retpc with the
\* result in  result : the CompletedProcess ("ok", "nonzero") or None
RunCommand(command, outcome, retpc) ==
    /\ Outcome(outcome)
    /\ cmds' = cmds \cup {command}
    /\ result' = IF outcome \in {"ok", "nonzero"} THEN outcome ELSE "None"
    /\ CASE outcome = "timeout" ->
              CallLog("main", LogArgs(FALSE, <<"Command timeout:", command>>,
                          <<"Operation timed out after 5 minutes">>), retpc)
         [] outcome = "error" ->
              CallLog("main", LogArgs(FALSE, <<"Command error:", command>>,
                          <<"err">>), retpc)
         [] OTHER -> Goto("main", retpc)

\* result and result.returncode == 0
Succeeded(res) == res = "ok"

\* what main's sequential steps leave alone
seqFrame == <<lock, installation_log, elevated, poolVars, calls, success,
              faults>>

\* the same for a step that asks the environment
envFrame == <<lock, installation_log, elevated, poolVars, calls, success>>

\* ------------------------------------------------------------- installation
\* check_winget_available, up to the version query
check_winget_available ==
    /\ pc["main"] = "check_winget_available"
    /\ ran' = ran \cup {"check_winget_available"}
    /\ CallLog("main", LogArgs(TRUE, <<"Checking winget availability">>, <<>>),
               "cw_run")
    /\ UNCHANGED <<seqFrame, result, pwsh7_path, resources, cmds>>

cw_run ==
    /\ pc["main"] = "cw_run"
    /\ \E outcome \in Possible(CmdOutcomes) :
         RunCommand("winget --version", outcome, "cw_result")
    /\ UNCHANGED <<envFrame, pwsh7_path, resources, ran>>

cw_result ==
    /\ pc["main"] = "cw_result"
    /\ IF Succeeded(result)
       THEN LogAndReturn("main", LogArgs(TRUE, <<"Winget is available">>,
                             <<"Version:", "out">>), "True")
       ELSE LogAndReturn("main", LogArgs(FALSE,
                             <<"Winget is not available or not functioning">>,
                             <<>>), "False")
    /\ UNCHANGED <<seqFrame, result, pwsh7_path, resources, ran, cmds>>

\* install_powershell7, up to the availability check
install_powershell7 ==
    /\ pc["main"] = "install_powershell7"
    /\ ran' = ran \cup {"install_powershell7"}
    /\ CallLog("main", LogArgs(TRUE, <<"Starting PowerShell 7 installation">>,
                   <<>>), "ip_check")
    /\ UNCHANGED <<seqFrame, result, pwsh7_path, resources, cmds>>

ip_check ==
    /\ pc["main"] = "ip_check"
    /\ Call("main", "check_winget_available", "ip_checked")
    /\ UNCHANGED <<seqFrame, result, pwsh7_path, resources, ran, cmds>>

\* a mutant of CheckFailed: the outcome of the check is ignored
CheckFailedNever(v) == FALSE

\* not self.check_winget_available()
CheckFailed(v) == ~Truthy(v)

\* if not self.check_winget_available(): ... return False; otherwise the
\* install command runs
ip_checked ==
    /\ pc["main"] = "ip_checked"
    /\ IF CheckFailed(rv["main"])
       THEN /\ LogAndReturn("main", LogArgs(FALSE,
                   <<"Cannot proceed without winget">>, <<>>), "False")
            /\ UNCHANGED <<result, cmds, faults>>
       ELSE \E outcome \in Possible(CmdOutcomes) :
              RunCommand("winget install", outcome, "ip_result")
    /\ UNCHANGED <<envFrame, pwsh7_path, fs, regPath, assoc, aliasFile, settings,
                   ps51, backup, restoreScript, report, ran>>

ip_result ==
    /\ pc["main"] = "ip_result"
    /\ IF Succeeded(result)
       THEN LogAndReturn("main", LogArgs(TRUE,
                <<"PowerShell 7 installation completed successfully">>, <<>>),
                "True")
       ELSE LogAndReturn("main", LogArgs(FALSE,
                <<"PowerShell 7 installation failed">>,
                IF result = "None" THEN <<"Unknown error">> ELSE <<"stderr">>),
                "False")
    /\ UNCHANGED <<seqFrame, result, pwsh7_path, resources, ran, cmds>>

\* ------------------------------------------------------------- path discovery
\* a mutant of FirstExisting: the last existing candidate is taken
RECURSIVE LastExisting(_, _)
LastExisting(paths, existing) ==
    IF paths = <<>> THEN "None"
    ELSE IF paths[Len(paths)] \in existing THEN paths[Len(paths)]
         ELSE LastExisting(SubSeq(paths, 1, Len(paths) - 1), existing)

\* for path in possible_paths: if os.path.exists(path): ... return path
RECURSIVE FirstExisting(_, _)
FirstExisting(paths, existing) ==
    IF paths = <<>> THEN "None"
    ELSE IF Head(paths) \in existing THEN Head(paths)
         ELSE FirstExisting(Tail(paths), existing)

FoundArgs(path) == LogArgs(TRUE, <<"Found PowerShell 7 at:", path>>, <<>>)

NotFoundArgs ==
    LogArgs(FALSE, <<"PowerShell 7 installation path not found">>, <<>>)

\* find_powershell7_path: the first probe, then the listing.  While the
\* listing runs an installer still at work may create one of the candidates
find_powershell7_path ==
    /\ pc["main"] = "find_powershell7_path"
    /\ ran' = ran \cup {"find_powershell7_path"}
    /\ IF FirstExisting(PossiblePaths, fs) # "None"
       THEN /\ pwsh7_path' = FirstExisting(PossiblePaths, fs)
            /\ LogAndReturn("main", FoundArgs(FirstExisting(PossiblePaths, fs)),
                            FirstExisting(PossiblePaths, fs))
            /\ UNCHANGED <<result, cmds, fs, faults>>
       ELSE /\ UNCHANGED pwsh7_path
            /\ \E outcome \in Possible(CmdOutcomes) :
                 RunCommand("winget list", outcome, "find_listed")
            /\ fs' \in {fs} \cup {{c} : c \in Candidates}
    /\ UNCHANGED <<envFrame, regPath, assoc, aliasFile, settings, ps51, backup,
                   restoreScript, report>>

\* after the listing: the second probe, only when the listing exited 0
find_listed ==
    /\ pc["main"] = "find_listed"
    /\ IF Succeeded(result) /\ FirstExisting(PossiblePaths, fs) # "None"
       THEN /\ pwsh7_path' = FirstExisting(PossiblePaths, fs)
            /\ LogAndReturn("main", FoundArgs(FirstExisting(PossiblePaths, fs)),
                            FirstExisting(PossiblePaths, fs))
       ELSE /\ UNCHANGED pwsh7_path
            /\ LogAndReturn("main", NotFoundArgs, "None")
    /\ UNCHANGED <<seqFrame, result, resources, ran, cmds>>

\* ------------------------------------------------------------- the process
\* run_installation_process, first statement
run_installation_process ==
    /\ pc["main"] = "run_installation_process"
    /\ ran' = ran \cup {"run_installation_process"}
    /\ CallLog("main", LogArgs(TRUE,
           <<"Starting PowerShell 7 installation and configuration process">>,
           <<>>), "run_as_admin")
    /\ UNCHANGED <<seqFrame, result, pwsh7_path, resources, cmds>>

\* run_as_admin: a process that is not elevated asks the shell to start an
\* elevated copy (ShellExecuteW reports failure by its return value, which
\* is not read) and leaves through sys.exit(0), which raises SystemExit
run_as_admin ==
    /\ pc["main"] = "run_as_admin"
    /\ ran' = ran \cup {"run_as_admin"}
    /\ IF ~elevated
       THEN Raise("main", "SystemExit")
       ELSE Call("main", "install_powershell7", "rip_installed")
    /\ UNCHANGED <<seqFrame, result, pwsh7_path, resources, cmds>>

\* if not self.install_powershell7(): return False
rip_installed ==
    /\ pc["main"] = "rip_installed"
    /\ IF ~Truthy(rv["main"])
       THEN ReturnValue("main", "False")
       ELSE Call("main", "find_powershell7_path", "rip_found")
    /\ UNCHANGED <<seqFrame, result, pwsh7_path, resources, ran, cmds>>

\* if not self.find_powershell7_path(): return False; otherwise the pool
\* is created
rip_found ==
    /\ pc["main"] = "rip_found"
    /\ IF ~Truthy(rv["main"])
       THEN ReturnValue("main", "False")
       ELSE Goto("main", "submit")
    /\ UNCHANGED <<seqFrame, result, pwsh7_path, resources, ran, cmds>>

\* executor.submit(...): the tasks are handed over in the order of the
\* dict literal, and a task may start as soon as it is handed over
submit ==
    /\ pc["main"] = "submit"
    /\ submitted < PoolSize
    /\ submitted' = submitted + 1
    /\ pc' = [pc EXCEPT ![TaskOrder[submitted + 1]] =
                            TaskMethod[TaskOrder[submitted + 1]],
                        !["main"] = IF submitted + 1 = PoolSize
                                    THEN "as_completed" ELSE "submit"]
    /\ stack' = [stack EXCEPT ![TaskOrder[submitted + 1]] = <<"task_done">>]
    /\ UNCHANGED <<rv, pend, nLogCalls, result, lock, installation_log,
                   pwsh7_path, elevated, resources, consumed, ran, cmds, calls,
                   success, faults>>

\* a mutant of Completed: a future is yielded whether finished or not
CompletedOrNot == Workers \ consumed

\* the futures that are finished and not yet yielded
Completed == {w \in Workers : pc[w] = "task_done"} \ consumed

\* for future in as_completed(tasks): a finished future is taken;
\* result = future.result(); if not result: log_action(..., False)
as_completed ==
    /\ pc["main"] = "as_completed"
    /\ \E w \in Completed :
         /\ consumed' = consumed \cup {w}
         /\ IF ~Truthy(rv[w])
            THEN CallLog("main", LogArgs(FALSE,
                     <<"Configuration task failed:", TaskName[w]>>, <<>>),
                     "as_completed")
            ELSE Goto("main", "as_completed")
    /\ UNCHANGED <<result, lock, installation_log, pwsh7_path, elevated,
                   resources, submitted, ran, cmds, calls, success, faults>>

\* the statements of run_installation_process after the  with  block, each
\* a call whose value is not read: every call returns into the next one
SequentialSteps ==
    <<"create_restore_script", "verify_installation",
      "broadcast_environment_change", "rip_broadcast">>

\* the loop ends when every future was yielded; the  with  block then joins
\* the pool, and the sequential steps begin with disable_powershell51_access
pool_joined ==
    /\ pc["main"] = "as_completed"
    /\ consumed = Workers
    /\ pc' = [pc EXCEPT !["main"] = "disable_powershell51_access"]
    /\ stack' = [stack EXCEPT !["main"] = SequentialSteps \o @]
    /\ UNCHANGED <<rv, pend, nLogCalls, seqFrame, result, pwsh7_path,
                   resources, ran, cmds>>

\* verify_installation, first statement
verify_installation ==
    /\ pc["main"] = "verify_installation"
    /\ ran' = ran \cup {"verify_installation"}
    /\ CallLog("main", LogArgs(TRUE, <<"Verifying PowerShell 7 installation">>,
                   <<>>), "vi_check")
    /\ UNCHANGED <<seqFrame, result, pwsh7_path, resources, cmds>>

VerifyFailedArgs == LogArgs(FALSE, <<"PowerShell 7 verification failed">>, <<>>)

\* if self.pwsh7_path and os.path.exists(self.pwsh7_path): run it
vi_check ==
    /\ pc["main"] = "vi_check"
    /\ IF Truthy(pwsh7_path) /\ pwsh7_path \in fs
       THEN \E outcome \in Possible(CmdOutcomes) :
              RunCommand("pwsh -Command", outcome, "vi_result")
       ELSE /\ LogAndReturn("main", VerifyFailedArgs, "False")
            /\ UNCHANGED <<result, cmds, faults>>
    /\ UNCHANGED <<envFrame, pwsh7_path, resources, ran>>

vi_result ==
    /\ pc["main"] = "vi_result"
    /\ IF Succeeded(result)
       THEN LogAndReturn("main", LogArgs(TRUE,
                <<"PowerShell 7 verification successful">>,
                <<"Version:", "out">>), "True")
       ELSE LogAndReturn("main", VerifyFailedArgs, "False")
    /\ UNCHANGED <<seqFrame, result, pwsh7_path, resources, ran, cmds>>

\* broadcast_environment_change: SendMessageW may raise, and is caught
broadcast_environment_change ==
    /\ pc["main"] = "broadcast_environment_change"
    /\ ran' = ran \cup {"broadcast_environment_change"}
    /\ \E send \in Possible({"ok", "error"}) :
         /\ Outcome(send)
         /\ IF send = "ok"
            THEN LogAndReturn("main", LogArgs(TRUE,
                     <<"Environment change broadcasted">>, <<>>), "None")
            ELSE LogAndReturn("main", LogArgs(FALSE,
                     <<"Failed to broadcast environment change">>, <<"err">>),
                     "None")
    /\ UNCHANGED <<envFrame, result, pwsh7_path, resources, cmds>>

\* the last two statements of run_installation_process
rip_broadcast ==
    /\ pc["main"] = "rip_broadcast"
    /\ LogAndReturn("main", LogArgs(TRUE,
           <<"PowerShell 7 installation and configuration completed">>, <<>>),
           "True")
    /\ UNCHANGED <<seqFrame, result, pwsh7_path, resources, ran, cmds>>

\* ------------------------------------------------------------- report
\* len([log for log in self.installation_log if word in log])
RECURSIVE CountWith(_, _)
CountWith(log, word) ==
    IF log = <<>> THEN 0
    ELSE (IF Contains(Head(log), word) THEN 1 ELSE 0) + CountWith(Tail(log), word)

NoReport ==
    [written |-> FALSE, lines |-> <<>>, path |-> "None", total |-> 0,
     successful |-> 0, failed |-> 0]

\* the text generate_report writes: the log lines, then the summary
ReportOf(log, path) ==
    [written |-> TRUE, lines |-> log, path |-> path, total |-> Len(log),
     successful |-> CountWith(log, "SUCCESS"),
     failed |-> CountWith(log, "FAILED")]

\* what open(report_file, "w") can do.  In main's handler the call follows
\* a failure, and a file that could not be opened a moment ago may still
\* not open, whatever has failed before
ReportOutcomes ==
    IF Head(stack["main"]) = "main_except_end" THEN {"ok", "error"}
    ELSE Possible({"ok", "error"})

\* generate_report: open(report_file, "w") may raise, and nothing catches
\* it here; the log is read without the lock
generate_report ==
    /\ pc["main"] = "generate_report"
    /\ ran' = ran \cup {"generate_report"}
    /\ \E io \in ReportOutcomes :
         /\ Outcome(io)
         /\ IF io = "ok"
            THEN /\ report' = ReportOf(installation_log, pwsh7_path)
                 /\ LogAndReturn("main", LogArgs(TRUE,
                        <<"Installation report generated:",
                          "powershell_installation_report.txt">>, <<>>), "None")
            ELSE /\ UNCHANGED report
                 /\ Raise("main", "Exception")
    /\ UNCHANGED <<configFrame, fs, regPath, assoc, aliasFile, settings, ps51,
                   backup, restoreScript>>

\* ------------------------------------------------------------- main
main ==
    /\ pc["main"] = "main"
    /\ Call("main", "run_installation_process", "main_after_rip")
    /\ UNCHANGED <<seqFrame, result, pwsh7_path, resources, ran, cmds>>

\* success = manager.run_installation_process(); manager.generate_report()
main_after_rip ==
    /\ pc["main"] = "main_after_rip"
    /\ success' = rv["main"]
    /\ Call("main", "generate_report", "main_end")
    /\ UNCHANGED <<lock, installation_log, elevated, poolVars, calls, result,
                   pwsh7_path, resources, ran, cmds, faults>>

\* the closing messages on the console
main_end ==
    /\ pc["main"] \in {"main_end", "main_except_end"}
    /\ Goto("main", "done")
    /\ UNCHANGED <<seqFrame, result, pwsh7_path, resources, ran, cmds>>

\* except Exception as e: manager.log_action("Unexpected error occurred", ...)
main_except ==
    /\ pc["main"] = "main_except"
    /\ CallLog("main", LogArgs(FALSE, <<"Unexpected error occurred">>,
                   <<"err">>), "main_except_report")
    /\ UNCHANGED <<seqFrame, result, pwsh7_path, resources, ran, cmds>>

\* manager.generate_report() inside the handler
main_except_report ==
    /\ pc["main"] = "main_except_report"
    /\ Call("main", "generate_report", "main_except_end")
    /\ UNCHANGED <<seqFrame, result, pwsh7_path, resources, ran, cmds>>

\* ------------------------------------------------------------- drivers
\* A driver calls methods of one manager directly, one after the other, as
\* the tests do.

\* the next direct call of a method
CallMethod(method) ==
    /\ pc["main"] = "idle"
    /\ calls < MaxCalls
    /\ calls' = calls + 1
    /\ Call("main", method, "idle")
    /\ UNCHANGED <<result, lock, installation_log, pwsh7_path, elevated,
                   resources, poolVars, ran, cmds, success, faults>>

\* texts a caller may pass as action
ActionTexts == {<<"Test action">>, <<"FAILED">>}

\* texts a caller may pass as details; the empty text is the default
DetailTexts == {<<>>, <<"SUCCESS">>}

\* manager.log_action(action, success, details) with any arguments
call_log_action ==
    /\ pc["main"] = "idle"
    /\ calls < MaxCalls
    /\ calls' = calls + 1
    /\ \E ok \in BOOLEAN, action \in ActionTexts, details \in DetailTexts :
         CallLog("main", LogArgs(ok, action, details), "idle")
    /\ UNCHANGED <<result, lock, installation_log, pwsh7_path, elevated,
                   resources, poolVars, ran, cmds, success, faults>>

call_generate_report == CallMethod("generate_report")

call_update_system_path == CallMethod("update_system_path")

call_set_powershell_file_associations ==
    CallMethod("set_powershell_file_associations")

call_create_powershell_alias == CallMethod("create_powershell_alias")

call_configure_terminal_default == CallMethod("configure_terminal_default")

call_disable_powershell51_access == CallMethod("disable_powershell51_access")

call_create_restore_script == CallMethod("create_restore_script")

call_find_powershell7_path == CallMethod("find_powershell7_path")

\* ------------------------------------------------------------- initial states
\* the manager after __init__, with no thread started
InitManager ==
    /\ stack = [t \in Threads |-> <<>>]
    /\ rv = [t \in Threads |-> "unset"]
    /\ pend = [t \in Threads |-> NoArgs]
    /\ result = "None"
    /\ lock = "free"
    /\ installation_log = <<>>
    /\ report = NoReport
    /\ restoreScript = FALSE
    /\ submitted = 0
    /\ consumed = {}
    /\ ran = {}
    /\ cmds = {}
    /\ nLogCalls = 0
    /\ calls = 0
    /\ success = "unset"
    /\ faults = 0

\* settings.json: profile names as words, guids, one unrelated setting
Pwsh7Profile == [name |-> <<"PowerShell", "7">>, guid |-> "guid-pwsh7"]
Ps51Profile == [name |-> <<"Windows", "PowerShell">>, guid |-> "guid-ps51"]
NoGuidProfile == [name |-> <<"PowerShell", "7", "Preview">>, guid |-> "None"]

SettingsWith(profiles) ==
    [exists |-> TRUE, valid |-> TRUE, profiles |-> profiles,
     defaultProfile |-> "guid-ps51", theme |-> "dark"]

SettingsAbsent ==
    [exists |-> FALSE, valid |-> FALSE, profiles |-> <<>>,
     defaultProfile |-> "None", theme |-> "None"]

SettingsInvalid ==
    [exists |-> TRUE, valid |-> FALSE, profiles |-> <<>>,
     defaultProfile |-> "None", theme |-> "None"]

OldAssoc == [command |-> "powershell.exe", ext |-> "Microsoft.PowerShellScript.1"]

\* a PATH holding an older entry of the first install directory
OldPath == <<"p", "7", ";", "7">>

\* ------------------------------------------------------------- the program
\* settings.json as main may find it
MainSettings ==
    {SettingsAbsent, SettingsWith(<<Ps51Profile, Pwsh7Profile>>)}

\* the candidates main may find: none yet, or two of them
MainFiles == {{}, {"ProgramFilesX86", "LocalAppData"}}

\* one run of main() on one machine
Init ==
    /\ InitManager
    /\ pc = [t \in Threads |-> IF t = "main" THEN "main" ELSE "unsubmitted"]
    /\ pwsh7_path = "None"
    /\ elevated \in BOOLEAN
    /\ fs \in MainFiles
    /\ regPath = OldPath
    /\ assoc = OldAssoc
    /\ aliasFile = "absent"
    /\ settings \in MainSettings
    /\ ps51 = TRUE
    /\ backup = FALSE

Acquire == \E t \in Threads : LogAcquire(t)

Append1 == \E t \in Threads : LogAppend(t)

TaskPath == \E t \in Threads : update_system_path(t)

TaskAssoc == \E t \in Threads : set_powershell_file_associations(t)

TaskAlias == \E t \in Threads : create_powershell_alias(t)

TaskTerminal == \E t \in Threads : configure_terminal_default(t)

Next ==
    \/ main
    \/ run_installation_process
    \/ run_as_admin
    \/ install_powershell7
    \/ ip_check
    \/ check_winget_available
    \/ cw_run
    \/ cw_result
    \/ ip_checked
    \/ ip_result
    \/ rip_installed
    \/ find_powershell7_path
    \/ find_listed
    \/ rip_found
    \/ submit
    \/ TaskPath
    \/ TaskAssoc
    \/ TaskAlias
    \/ TaskTerminal
    \/ as_completed
    \/ pool_joined
    \/ disable_powershell51_access
    \/ create_restore_script
    \/ verify_installation
    \/ vi_check
    \/ vi_result
    \/ broadcast_environment_change
    \/ rip_broadcast
    \/ main_after_rip
    \/ generate_report
    \/ main_end
    \/ main_except
    \/ main_except_report
    \/ Acquire
    \/ Append1

Spec == Init /\ [][Next]_vars

\* ------------------------------------------------------------- direct calls
\* a manager whose methods a driver calls, on a machine in its usual state
InitDriver ==
    /\ InitManager
    /\ pc = [t \in Threads |-> IF t = "main" THEN "idle" ELSE "unsubmitted"]
    /\ elevated = TRUE

UsualMachine ==
    /\ fs = {}
    /\ regPath = OldPath
    /\ assoc = OldAssoc
    /\ aliasFile = "absent"
    /\ settings = SettingsAbsent
    /\ ps51 = TRUE
    /\ backup = FALSE

\* log_action with any arguments, and generate_report
InitLog ==
    /\ InitDriver
    /\ UsualMachine
    /\ pwsh7_path \in {"None", "ProgramFiles"}

NextLog ==
    \/ call_log_action
    \/ call_generate_report
    \/ generate_report
    \/ Acquire
    \/ Append1

SpecLog == InitLog /\ [][NextLog]_vars

\* update_system_path on any stored PATH
InitPath ==
    /\ InitDriver
    /\ pwsh7_path \in Candidates
    /\ fs = {pwsh7_path}
    /\ regPath \in SeqsUpTo(PathChars, MaxPathLen)
    /\ assoc = OldAssoc
    /\ aliasFile = "absent"
    /\ settings = SettingsAbsent
    /\ ps51 = TRUE
    /\ backup = FALSE

NextPath ==
    \/ call_update_system_path
    \/ TaskPath
    \/ Acquire
    \/ Append1

SpecPath == InitPath /\ [][NextPath]_vars

\* disable_powershell51_access and create_restore_script on any state of
\* the two executables
InitDemote ==
    /\ InitDriver
    /\ pwsh7_path \in {"None", "ProgramFiles"}
    /\ fs = {}
    /\ regPath = OldPath
    /\ assoc = OldAssoc
    /\ aliasFile = "absent"
    /\ settings = SettingsAbsent
    /\ ps51 \in BOOLEAN
    /\ backup \in BOOLEAN

NextDemote ==
    \/ call_disable_powershell51_access
    \/ call_create_restore_script
    \/ disable_powershell51_access
    \/ create_restore_script
    \/ Acquire
    \/ Append1

SpecDemote == InitDemote /\ [][NextDemote]_vars

\* find_powershell7_path on any set of existing candidates
InitFind ==
    /\ InitDriver
    /\ pwsh7_path = "None"
    /\ fs \in SUBSET Candidates
    /\ regPath = OldPath
    /\ assoc = OldAssoc
    /\ aliasFile = "absent"
    /\ settings = SettingsAbsent
    /\ ps51 = TRUE
    /\ backup = FALSE

NextFind ==
    \/ call_find_powershell7_path
    \/ find_powershell7_path
    \/ find_listed
    \/ Acquire
    \/ Append1

SpecFind == InitFind /\ [][NextFind]_vars

\* settings.json as a configuration action may find it
ConfigSettings ==
    {SettingsAbsent, SettingsInvalid,
     SettingsWith(<<Ps51Profile>>),
     SettingsWith(<<Ps51Profile, Pwsh7Profile>>),
     SettingsWith(<<NoGuidProfile, Pwsh7Profile>>)}

\* the four configuration actions, with and without a resolved path
InitConfig ==
    /\ InitDriver
    /\ pwsh7_path \in {"None", "ProgramFiles"}
    /\ fs = {}
    /\ regPath = OldPath
    /\ assoc = OldAssoc
    /\ aliasFile = "absent"
    /\ settings \in ConfigSettings
    /\ ps51 = TRUE
    /\ backup = FALSE

NextConfig ==
    \/ call_update_system_path
    \/ call_set_powershell_file_associations
    \/ call_create_powershell_alias
    \/ call_configure_terminal_default
    \/ TaskPath
    \/ TaskAssoc
    \/ TaskAlias
    \/ TaskTerminal
    \/ Acquire
    \/ Append1

SpecConfig == InitConfig /\ [][NextConfig]_vars

\* ------------------------------------------------------------- properties
\* the entries of the log written with this message
RECURSIVE CountMessage(_, _)
CountMessage(log, msg) ==
    IF log = <<>> THEN 0
    ELSE (IF EntryMessage(Head(log)) = msg THEN 1 ELSE 0)
         + CountMessage(Tail(log), msg)

HasMessage(msg) == CountMessage(installation_log, msg) > 0

\* the driver is between two calls, the last one finished
Idle == pc["main"] = "idle" /\ calls > 0

\* C1: in every report written, Total Actions is the number of log lines
\* in it, and Successful Actions + Failed Actions = Total Actions; a report
\* of an empty log states Total Actions: 0.
C1_ReportCountsAddUp ==
    report.written =>
        /\ report.total = Len(report.lines)
        /\ report.lines = <<>> => report.total = 0
        /\ report.successful + report.failed = report.total

\* C2: no append to the log is lost, duplicated or merged: the log holds
\* one complete entry for every log_action call that has left its critical
\* section, at most one thread is inside the critical section, and the log
\* changes only by the thread inside it appending the entry of its own call.
ThreadsLogging == {t \in Threads : pc[t] \in {"log_action", "log_locked"}}

ThreadsInCriticalSection == {t \in Threads : pc[t] = "log_locked"}

CompleteEntry(e) ==
    /\ Len(e) >= 4
    /\ e[1] = "[ts]"
    /\ e[2] \in {"SUCCESS", "FAILED"}
    /\ e[3] = ":"

C2_Counted ==
    /\ Len(installation_log) + Cardinality(ThreadsLogging) = nLogCalls
    /\ Cardinality(ThreadsInCriticalSection) <= 1
    /\ \A t \in ThreadsInCriticalSection : lock = t
    /\ \A i \in DOMAIN installation_log : CompleteEntry(installation_log[i])
    /\ (\A t \in Threads : pc[t] \in {"done", "task_done"})
           => Len(installation_log) = nLogCalls

C2_AppendedByOneCall ==
    installation_log' # installation_log =>
        \E t \in ThreadsInCriticalSection :
            /\ installation_log' = Append(installation_log, LogEntry(pend[t]))
            /\ pc'[t] # "log_locked"
            /\ \A u \in Threads \ {t} : pc'[u] = pc[u]

C2_NoAppendLost == []C2_Counted /\ [][C2_AppendedByOneCall]_vars

\* the messages of the coordinating thread and of the pool threads
CoordinatorMessage == "Configuration task failed:"

WorkerMessages ==
    {"System PATH updated successfully", "Failed to update system PATH",
     "PowerShell file associations updated", "Failed to set file associations",
     "PowerShell alias created successfully",
     "Failed to create PowerShell alias",
     "Windows Terminal default profile updated",
     "PowerShell 7 profile not found in Windows Terminal",
     "Windows Terminal settings not found",
     "Failed to configure Windows Terminal"}

\* the run is over, the four pool threads and the coordinating thread have
\* all logged, and an entry of the coordinating thread lies between entries
\* of pool threads
C2_Witness ==
    /\ pc["main"] = "done"
    /\ consumed = Workers
    /\ Len(installation_log) = nLogCalls
    /\ \E i, j, k \in DOMAIN installation_log :
         /\ i < j /\ j < k
         /\ EntryMessage(installation_log[i]) \in WorkerMessages
         /\ EntryMessage(installation_log[j]) = CoordinatorMessage
         /\ EntryMessage(installation_log[k]) \in WorkerMessages

\* C3: once update_system_path has succeeded, the stored PATH parses into a
\* list whose entry 0 is the install directory and in which no other entry
\* is that directory; applying the update again yields the same PATH, and
\* no later update changes the stored PATH.
PathUpdates ==
    CountMessage(installation_log, "System PATH updated successfully")

RECURSIVE CountEntries(_, _)
CountEntries(entries, dir) ==
    IF entries = <<>> THEN 0
    ELSE (IF Lower(Strip(Head(entries))) = Lower(dir) THEN 1 ELSE 0)
         + CountEntries(Tail(entries), dir)

C3_OnceAtFront ==
    PathUpdates >= 1 =>
        /\ Split(regPath, ";")[1] = PathDir(pwsh7_path)
        /\ CountEntries(Split(regPath, ";"), PathDir(pwsh7_path)) = 1
        /\ NewPath(regPath, PathDir(pwsh7_path)) = regPath

C3_SecondChangesNothing == PathUpdates >= 1 => regPath' = regPath

C3_PathIdempotent == []C3_OnceAtFront /\ [][C3_SecondChangesNothing]_vars

\* the update has succeeded twice on a PATH that keeps an unrelated entry
C3_Witness ==
    /\ Idle
    /\ PathUpdates >= 2
    /\ Len(PathEntries(regPath)) >= 2

\* C4 as stated: after every finished run of disable_powershell51_access,
\* from any state of the two executables, no exception has escaped and the
\* backup file exists.
DemotionRuns ==
    Len(installation_log)
    - CountMessage(installation_log, "PowerShell 5.1 restoration script created")
    - CountMessage(installation_log, "Failed to create restoration script")

C4_OnlyRenames ==
    /\ (backup \/ ~ps51) => (ps51' = ps51 /\ backup' = backup)
    /\ (ps51' # ps51 \/ backup' # backup) =>
           (ps51 /\ ~backup /\ ~ps51' /\ backup')

C4_RenameLasts ==
    /\ pc["main"] # "crashed"
    /\ HasMessage("PowerShell 5.1 access limited (renamed to backup)")
           => (backup /\ ~ps51)

FirstIndex(existing) ==
    CHOOSE i \in DOMAIN PossiblePaths :
        /\ PossiblePaths[i] \in existing
        /\ \A j \in 1..(i - 1) : PossiblePaths[j] \notin existing

C5_FirstProbe ==
    (pc["main"] = "find_powershell7_path" /\ fs \cap Candidates # {}) =>
        /\ rv'["main"] = PossiblePaths[FirstIndex(fs)]
        /\ pwsh7_path' = PossiblePaths[FirstIndex(fs)]
        /\ cmds' = cmds

C5_NoMatch ==
    (pc["main"] = "find_listed" /\ ~Succeeded(result)) =>
        /\ rv'["main"] = "None"
        /\ pwsh7_path = "None" /\ pwsh7_path' = "None"
        /\ pc'["main"] = "log_action"
        /\ ~pend'["main"].success

C5_ReturnedNone ==
    (Idle /\ rv["main"] = "None") =>
        /\ pwsh7_path = "None"
        /\ "winget list" \in cmds
        /\ installation_log # <<>>
        /\ EntryStatus(installation_log[Len(installation_log)]) = "FAILED"
        /\ EntryMessage(installation_log[Len(installation_log)]) =
               "PowerShell 7 installation path not found"

C5_Discovery ==
    []C5_ReturnedNone /\ [][C5_FirstProbe /\ C5_NoMatch]_vars

\* no candidate existed and the listing failed, so the first call returned
\* None; a candidate appeared meanwhile and the second call returned it
C5_Witness ==
    /\ Idle
    /\ calls = 2
    /\ result # "ok"
    /\ EntryMessage(installation_log[Len(installation_log) - 1]) =
           "PowerShell 7 installation path not found"
    /\ rv["main"] \in Candidates
    /\ pwsh7_path = rv["main"]

\* C6: in a process that is not elevated nothing after run_as_admin is
\* executed: no command is run, no later step starts, no task is handed to
\* the pool, no report is written, and the process ends by exiting.
StepsBeforeElevation == {"run_installation_process", "run_as_admin"}

C6_NothingAfterElevation ==
    ~elevated =>
        /\ ran \subseteq StepsBeforeElevation
        /\ cmds = {}
        /\ submitted = 0
        /\ ~report.written
        /\ success = "unset"
        /\ pc["main"] \in {"main", "run_installation_process", "log_action",
                           "log_locked", "run_as_admin", "exited"}
        /\ pc["main"] = "exited" => Len(installation_log) = 1

\* the process that was not elevated has exited from run_as_admin
C6_Witness ==
    /\ ~elevated
    /\ pc["main"] = "exited"
    /\ "run_as_admin" \in ran

\* C7: when the version query gave no result or a non-zero exit code, the
\* install command is never run, none of path discovery, the configuration
\* actions, demotion, restore script, verification and broadcast starts,
\* and run_installation_process returns False.
StepsAfterInstall ==
    {"find_powershell7_path", "update_system_path",
     "set_powershell_file_associations", "create_powershell_alias",
     "configure_terminal_default", "disable_powershell51_access",
     "create_restore_script", "verify_installation",
     "broadcast_environment_change"}

VersionQueryFailed ==
    \/ pc["main"] = "cw_result" /\ ~Succeeded(result)
    \/ HasMessage("Winget is not available or not functioning")

C7_FailFast ==
    VersionQueryFailed =>
        /\ cmds = {"winget --version"}
        /\ ran \cap StepsAfterInstall = {}
        /\ submitted = 0
        /\ pc["main"] = "main_after_rip" => rv["main"] = "False"
        /\ success \in {"unset", "False"}
        /\ pc["main"] = "done" => success = "False"

\* the version query failed and the run ended with failure
C7_Witness ==
    /\ HasMessage("Winget is not available or not functioning")
    /\ HasMessage("Cannot proceed without winget")
    /\ result # "ok"
    /\ success = "False"
    /\ pc["main"] = "done"

\* C8 as stated: run_installation_process returns early only when the
\* package manager is absent or the install path was not found; after a
\* failed install command path discovery still runs and, when the
\* executable is found, so do the steps up to the broadcast.
HardStopped ==
    \/ HasMessage("Winget is not available or not functioning")
    \/ HasMessage("PowerShell 7 installation path not found")

C8_TwoHardStops ==
    (elevated /\ pc["main"] = "main_after_rip") =>
        /\ ~HardStopped => "broadcast_environment_change" \in ran
        /\ HasMessage("PowerShell 7 installation failed") =>
               "find_powershell7_path" \in ran

\* C9 as stated: configure_terminal_default, with settings.json absent or
\* without a matching profile, returns False, records a FAILED entry and
\* leaves the file as it was; when it updates the file, only defaultProfile
\* changes.
HasMatchingProfile(st) ==
    \E i \in DOMAIN st.profiles : IsPwsh7Profile(st.profiles[i])

C9_TerminalStep(t) ==
    (pc[t] = "configure_terminal_default" /\ pc'[t] # pc[t]) =>
        /\ (~settings.exists \/ (settings.valid /\ ~HasMatchingProfile(settings)))
               => /\ rv'[t] = "False"
                  /\ pc'[t] = "log_action"
                  /\ ~pend'[t].success
                  /\ settings' = settings
        /\ rv'[t] = "True" =>
               /\ HasMatchingProfile(settings)
               /\ [settings' EXCEPT !.defaultProfile = settings.defaultProfile]
                      = settings

C9_TerminalFailsCleanly == [][\A t \in Threads : C9_TerminalStep(t)]_vars

\* C10 as stated: each of the four configuration actions, called while
\* self.pwsh7_path is unset, returns False, records a FAILED entry and
\* leaves the registry, the alias script and settings.json as they were.
ConfigurationActions ==
    {"update_system_path", "set_powershell_file_associations",
     "create_powershell_alias", "configure_terminal_default"}

C10_ConfigStep(t) ==
    (pc[t] \in ConfigurationActions /\ pc'[t] # pc[t] /\ ~Truthy(pwsh7_path)) =>
        /\ rv'[t] = "False"
        /\ pc'[t] = "log_action"
        /\ ~pend'[t].success
        /\ <<regPath, assoc, aliasFile, settings>>' =
               <<regPath, assoc, aliasFile, settings>>

C10_PathIsPrecondition == [][\A t \in Threads : C10_ConfigStep(t)]_vars

\* C11 as stated: when a run of main in an elevated process has ended, a
\* report has been written; it holds the log entries appended before it
\* was written, each once and in insertion order, followed by the summary
\* of those entries; and the report is written only while no pool thread
\* is running.
PoolThreadsRunning ==
    {w \in Workers : pc[w] \notin {"unsubmitted", "task_done"}}

RunEnded == pc["main"] \in {"done", "crashed"}

C11_ReportAtEnd ==
    (elevated /\ RunEnded) =>
        /\ report.written
        /\ Len(report.lines) = Len(installation_log) - 1
        /\ report.lines = SubSeq(installation_log, 1, Len(report.lines))
        /\ report.total = Len(report.lines)
        /\ report.path = pwsh7_path

C11_ReportAfterPool ==
    report' # report =>
        /\ PoolThreadsRunning = {}
        /\ report'.lines = installation_log

C11_ReportAlwaysWritten ==
    []C11_ReportAtEnd /\ [][C11_ReportAfterPool]_vars

\* C12: the four configuration actions are started only once the install
\* path is found, each exactly once and by its own pool thread; each runs
\* to completion whatever the others return: a pool thread only moves
\* forward, it waits for nothing but the lock, whose holder is inside the
\* critical section, and every run that ends after the path was found ends
\* with all four finished; demotion, restore script, verification and
\* broadcast start only after all four have finished, and in that order.
SequentialMethods ==
    <<"disable_powershell51_access", "create_restore_script",
      "verify_installation", "broadcast_environment_change">>

AllTasksFinished ==
    /\ \A w \in Workers : pc[w] = "task_done"
    /\ {TaskMethod[w] : w \in Workers} \subseteq ran

\* how many steps a pool thread at position p is away from having finished
StepsLeft(w, p) ==
    CASE p = "unsubmitted" -> 4
      [] p = TaskMethod[w] -> 3
      [] p = "log_action" -> 2
      [] p = "log_locked" -> 1
      [] p = "task_done" -> 0
      [] OTHER -> 5

C12_JoinThenSequence ==
    /\ ran \cap SeqToSet(SequentialMethods) # {} =>
           (AllTasksFinished /\ consumed = Workers)
    /\ \A i \in 2..Len(SequentialMethods) :
           SequentialMethods[i] \in ran => SequentialMethods[i - 1] \in ran
    /\ \A w \in Workers : pc[w] # "unsubmitted" => Truthy(pwsh7_path)
    /\ \A w \in Workers :
           TaskMethod[w] \in ran <=> pc[w] \notin {"unsubmitted", TaskMethod[w]}
    /\ \A w \in Workers : StepsLeft(w, pc[w]) <= 4
    /\ lock # "free" => pc[lock] = "log_locked"
    /\ (elevated /\ RunEnded /\ Truthy(pwsh7_path)) =>
           (AllTasksFinished /\ SeqToSet(SequentialMethods) \subseteq ran)

C12_StartedOnce ==
    /\ \A w \in Workers :
         pc'[w] # pc[w] => StepsLeft(w, pc'[w]) < StepsLeft(w, pc[w])
    /\ \A t \in Threads :
         (pc'[t] \in {TaskMethod[w] : w \in Workers} /\ pc'[t] # pc[t]) =>
             (t \in Workers /\ pc'[t] = TaskMethod[t])

C12_FanOutFanIn ==
    []C12_JoinThenSequence /\ [][C12_StartedOnce]_vars

\* a finished run in which one action failed, another succeeded, and the
\* action submitted last recorded its outcome before the one submitted first
C12_Witness ==
    /\ pc["main"] = "done"
    /\ AllTasksFinished
    /\ "broadcast_environment_change" \in ran
    /\ \E v, w \in Workers : rv[v] = "False" /\ rv[w] = "True"
    /\ \E i, j \in DOMAIN installation_log :
         /\ i < j
         /\ EntryMessage(installation_log[i]) =
                "Windows Terminal default profile updated"
         /\ EntryMessage(installation_log[j]) \in
                {"System PATH updated successfully",
                 "Failed to update system PATH"}

\* C13: the value run_installation_process returns in an elevated process
\* is True exactly when the package manager check and the install command
\* succeeded and the install path was found, and False otherwise, whatever
\* the configuration actions, demotion, restore script, verification and
\* broadcast did; main's success is that value.
InstalledAndFound ==
    /\ HasMessage("Winget is available")
    /\ HasMessage("PowerShell 7 installation completed successfully")
    /\ Truthy(pwsh7_path)

C13_ResultIgnoresLaterSteps ==
    /\ (elevated /\ pc["main"] = "main_after_rip") =>
           rv["main"] = (IF InstalledAndFound THEN "True" ELSE "False")
    /\ (elevated /\ success # "unset") =>
           success = (IF InstalledAndFound THEN "True" ELSE "False")
    /\ (elevated /\ pc["main"] = "done") => success # "unset"

\* the run reported success although verification failed and a
\* configuration action failed
C13_Witness ==
    /\ pc["main"] = "done"
    /\ success = "True"
    /\ HasMessage("PowerShell 7 verification failed")
    /\ HasMessage("Configuration task failed:")

\* C14 as stated: whenever a configuration action, the demotion, the
\* verification or the install step returns, it does so by recording its
\* outcome, and the entry it records is SUCCESS exactly when the value it
\* returns is a success.
OutcomeSteps ==
    ConfigurationActions \cup
    {"disable_powershell51_access", "vi_check", "vi_result", "ip_checked",
     "ip_result"}

\* the step ends the method t is in: a plain return, or a log_action call
\* made as the last statement before the return
Returns(t) ==
    \/ Len(stack'[t]) < Len(stack[t])
    \/ pc'[t] = "log_action" /\ stack'[t] = stack[t]

C14_Step(t) ==
    (pc[t] \in OutcomeSteps /\ pc'[t] # pc[t] /\ Returns(t)) =>
        /\ pc'[t] = "log_action"
        /\ pend'[t].success <=> Truthy(rv'[t])

C14_LogAgreesWithResult == [][\A t \in Threads : C14_Step(t)]_vars

\* C15 as stated: a successful update keeps every non-empty entry of the
\* old PATH that does not start, case-insensitively, with the install
\* directory, as it was, as often as before and in the same order,
\* directly after the new first entry; a failed update leaves the stored
\* PATH unchanged.
RECURSIVE UnrelatedEntries(_, _)
UnrelatedEntries(entries, dir) ==
    IF entries = <<>> THEN <<>>
    ELSE (IF /\ Head(entries) # <<>>
             /\ ~StartsWith(Lower(Head(entries)), Lower(dir))
          THEN <<Head(entries)>> ELSE <<>>)
         \o UnrelatedEntries(Tail(entries), dir)

PathStep(t) == pc[t] = "update_system_path" /\ pc'[t] # pc[t]

C15_KeptAsWritten(t) ==
    PathStep(t) =>
        IF rv'[t] = "True"
        THEN Split(regPath', ";") =
                 <<PathDir(pwsh7_path)>>
                 \o UnrelatedEntries(Split(regPath, ";"), PathDir(pwsh7_path))
        ELSE regPath' = regPath

C15_UnrelatedEntriesUntouched ==
    [][\A t \in Threads : C15_KeptAsWritten(t)]_vars

\* C15 amended: a successful update keeps every entry of the old PATH
\* that, with surrounding blanks removed, is non-empty and does not start,
\* case-insensitively, with the install directory; it keeps the entry
\* without its surrounding blanks, as often as before and in the same
\* order, directly after the new first entry; entries that are empty or
\* blank are dropped; a failed update leaves the stored PATH unchanged.
StrippedEntries(current_path) ==
    [i \in DOMAIN Split(current_path, ";") |->
        Strip(Split(current_path, ";")[i])]

C15_KeptStripped(t) ==
    PathStep(t) =>
        IF rv'[t] = "True"
        THEN Split(regPath', ";") =
                 <<PathDir(pwsh7_path)>>
                 \o UnrelatedEntries(StrippedEntries(regPath),
                                     PathDir(pwsh7_path))
        ELSE regPath' = regPath

C15_UnrelatedEntriesKept ==
    [][\A t \in Threads : C15_KeptStripped(t)]_vars

\* one update has succeeded and two different unrelated entries follow the
\* install directory
C15_Witness ==
    /\ Idle
    /\ PathUpdates = 1
    /\ Len(Split(regPath, ";")) = 3
    /\ Split(regPath, ";")[1] = PathDir(pwsh7_path)
    /\ Split(regPath, ";")[2] # Split(regPath, ";")[3]

====
